---- MODULE Spec2Model ----
(***************************************************************************)
(* Model of etf_scanner_yf.py: the Streamlit script that, for a list of    *)
(* stock tickers, scrapes the ETFdb page of each stock, normalises the     *)
(* first HTML table of the page and consolidates the per-stock frames.     *)
(*                                                                         *)
(* Strings are sequences of one-character strings, so that strip(),        *)
(* upper(), lower(), split(",") and the substring tests of the code are    *)
(* computed and not assumed.                                               *)
(***************************************************************************)
EXTENDS Integers, Sequences, FiniteSets, TLC

(***************************************************************************)
(* Bounds of the model.                                                    *)
(***************************************************************************)
MaxTextLen == 5
MaxCols == 2
MaxRows == 2
MaxScans == 2

(***************************************************************************)
(* Characters and the str methods the script uses.                         *)
(***************************************************************************)
LowerChars == <<"a","b","c","d","e","f","g","h","i","j","k","l","m",
                "n","o","p","q","r","s","t","u","v","w","x","y","z">>
UpperChars == <<"A","B","C","D","E","F","G","H","I","J","K","L","M",
                "N","O","P","Q","R","S","T","U","V","W","X","Y","Z">>
\* The characters of the model in code-point order (what sorted() compares).
AsciiChars == <<"\t", " ", "%", ",", ".", "0", "1", "2", "5", "7">>
              \o UpperChars \o LowerChars

Range(f) == {f[i] : i \in DOMAIN f}

IsSpace(c) == c \in {" ", "\t"}

CharOrd(c) == CHOOSE i \in 1..Len(AsciiChars) : AsciiChars[i] = c

\* the case mappings of the letters of the model
LowerToUpper ==
  [c \in Range(LowerChars) |->
     UpperChars[CHOOSE i \in 1..Len(LowerChars) : LowerChars[i] = c]]
UpperToLower ==
  [c \in Range(UpperChars) |->
     LowerChars[CHOOSE i \in 1..Len(UpperChars) : UpperChars[i] = c]]

CharUpper(c) == IF c \in DOMAIN LowerToUpper THEN LowerToUpper[c] ELSE c

CharLower(c) == IF c \in DOMAIN UpperToLower THEN UpperToLower[c] ELSE c

\* str.upper()
StrUpper(s) == [i \in 1..Len(s) |-> CharUpper(s[i])]

\* str.lower()
StrLower(s) == [i \in 1..Len(s) |-> CharLower(s[i])]

\* str.lstrip(), str.rstrip(), str.strip(): computed one character at a time
RECURSIVE LStrip(_)
LStrip(s) == IF s # <<>> /\ IsSpace(Head(s)) THEN LStrip(Tail(s)) ELSE s

RECURSIVE RStrip(_)
RStrip(s) ==
  IF s # <<>> /\ IsSpace(s[Len(s)]) THEN RStrip(SubSeq(s, 1, Len(s) - 1)) ELSE s

StrStrip(s) == RStrip(LStrip(s))

\* the Python test  sub in s
StrContains(sub, s) ==
  \E i \in 0..(Len(s) - Len(sub)) : SubSeq(s, i + 1, i + Len(sub)) = sub

\* str.split(","): the text up to the first comma, then the split of the rest
RECURSIVE SplitComma(_)
SplitComma(s) ==
  IF \E i \in 1..Len(s) : s[i] = ","
  THEN LET i == CHOOSE k \in 1..Len(s) :
                   s[k] = "," /\ \A j \in 1..(k - 1) : s[j] # ","
       IN  <<SubSeq(s, 1, i - 1)>> \o SplitComma(SubSeq(s, i + 1, Len(s)))
  ELSE <<s>>

\* string comparison of sorted(): lexicographic on code points
RECURSIVE StrLess(_, _)
StrLess(a, b) ==
  IF a = <<>> THEN b # <<>>
  ELSE IF b = <<>> THEN FALSE
  ELSE IF Head(a) = Head(b) THEN StrLess(Tail(a), Tail(b))
  ELSE CharOrd(Head(a)) < CharOrd(Head(b))

\* sorted(set(xs))
RECURSIVE SortedSet(_)
SortedSet(S) ==
  IF S = {} THEN <<>>
  ELSE LET m == CHOOSE x \in S : \A y \in S \ {x} : StrLess(x, y)
       IN  <<m>> \o SortedSet(S \ {m})

\* the elements of q that Keep accepts, in order (a list comprehension with if)
FilterSeq(q, Keep(_)) ==
  LET F[i \in 0..Len(q)] ==
        IF i = 0 THEN <<>>
        ELSE IF Keep(q[i]) THEN Append(F[i - 1], q[i]) ELSE F[i - 1]
  IN  F[Len(q)]

(***************************************************************************)
(* parse_tickers (lines 44-47)                                             *)
(***************************************************************************)
\* parse_tickers with the filter on the raw segment instead of the stripped one
parse_tickers_keeps_blank(text) ==
  IF text = <<>> THEN <<>>
  ELSE LET segs == SplitComma(text)
           kept == FilterSeq(segs, LAMBDA t : t # <<>>)
       IN  [i \in 1..Len(kept) |-> StrUpper(StrStrip(kept[i]))]

parse_tickers(text) ==
  IF text = <<>> THEN <<>>
  ELSE LET segs == SplitComma(text)
           kept == FilterSeq(segs, LAMBDA t : StrStrip(t) # <<>>)
       IN  [i \in 1..Len(kept) |-> StrUpper(StrStrip(kept[i]))]

(***************************************************************************)
(* Data frames.  A frame is its column labels and its rows (one cell per   *)
(* column).  NaN is pandas' missing value, None is Python's None; neither  *)
(* is a string of the model (strings have one character per element).      *)
(***************************************************************************)
NaN == <<"NaN">>
None == <<"None">>

\* pd.DataFrame()
EmptyDF == [columns |-> <<>>, rows |-> <<>>]

\* emptiness judged by the columns alone
DfEmptyColumnsOnly(df) == Len(df.columns) = 0

\* DataFrame.empty: some axis has length 0
DfEmpty(df) == Len(df.columns) = 0 \/ Len(df.rows) = 0

\* Series.astype(str) on one cell
AsStr(v) == IF v = NaN THEN <<"n","a","n">> ELSE v

\* the canonical column names, in the order of col_map (lines 103-109)
cTicker == <<"T","i","c","k","e","r">>
cETF == <<"E","T","F">>
cCategory == <<"E","T","F"," ","D","a","t","a","b","a","s","e"," ","C","a","t","e","g","o","r","y">>
cExpense == <<"E","x","p","e","n","s","e"," ","R","a","t","i","o">>
cWeighting == <<"W","e","i","g","h","t","i","n","g">>
cStock == <<"s","t","o","c","k">>
Canonical == <<cTicker, cETF, cCategory, cExpense, cWeighting>>

\* the literals the column rules and the header filter test against
litTicker == <<"t","i","c","k","e","r">>
litEtf == <<"e","t","f">>
litDatabaseCategory == <<"d","a","t","a","b","a","s","e"," ","c","a","t","e","g","o","r","y">>
litExpense == <<"e","x","p","e","n","s","e">>
litWeight == <<"w","e","i","g","h","t">>
litTICKER == <<"T","I","C","K","E","R">>

\* positions of the columns labelled name, ascending
Positions(cols, name) ==
  FilterSeq([p \in 1..Len(cols) |-> p], LAMBDA p : cols[p] = name)

\* df[names]: for each name in turn, every column carrying that label
RECURSIVE PositionsOfAll(_, _)
PositionsOfAll(cols, names) ==
  IF names = <<>> THEN <<>>
  ELSE Positions(cols, Head(names)) \o PositionsOfAll(cols, Tail(names))

SelectColumns(df, names) ==
  LET ps == PositionsOfAll(df.columns, names)
  IN  [columns |-> [i \in 1..Len(ps) |-> df.columns[ps[i]]],
       rows |-> [r \in 1..Len(df.rows) |->
                   [i \in 1..Len(ps) |-> df.rows[r][ps[i]]]]]

HasColumn(df, name) == \E p \in 1..Len(df.columns) : df.columns[p] = name

\* df[name] is a Series only when one column carries the label; with several
\* it is a DataFrame, which has no .str accessor (AttributeError)
IsSeries(df, name) == Len(Positions(df.columns, name)) = 1

\* df[name] = f(df[name]) cell by cell
MapColumn(df, name, F(_)) ==
  [df EXCEPT !.rows =
     [r \in 1..Len(df.rows) |->
        [i \in 1..Len(df.columns) |->
           IF df.columns[i] = name THEN F(df.rows[r][i]) ELSE df.rows[r][i]]]]

(***************************************************************************)
(* get_stock_etf_exposure_etfdb (lines 51-158), as a function of the       *)
(* symbol and of what the site answered.                                   *)
(***************************************************************************)
\* lines 96-100: first level of each label of a MultiIndex, str(c) otherwise
FlattenColumns(table) ==
  IF table.multi THEN [i \in 1..Len(table.columns) |-> table.columns[i][1]]
  ELSE table.columns

\* the etf rule as a substring test
EtfRuleContains(col_norm) == StrContains(litEtf, col_norm)

\* line 115
EtfRule(col_norm) == col_norm = litEtf

\* lines 112-122: one iteration of the loop over df.columns
ColMapStep(col_map, col) ==
  LET col_norm == StrLower(StrStrip(col))
  IN  IF StrContains(litTicker, col_norm) /\ col_map[1] = None
        THEN [col_map EXCEPT ![1] = col]
      ELSE IF EtfRule(col_norm) /\ col_map[2] = None
        THEN [col_map EXCEPT ![2] = col]
      ELSE IF StrContains(litDatabaseCategory, col_norm) /\ col_map[3] = None
        THEN [col_map EXCEPT ![3] = col]
      ELSE IF StrContains(litExpense, col_norm) /\ col_map[4] = None
        THEN [col_map EXCEPT ![4] = col]
      ELSE IF StrContains(litWeight, col_norm) /\ col_map[5] = None
        THEN [col_map EXCEPT ![5] = col]
      ELSE col_map

RECURSIVE ColMapLoop(_, _)
ColMapLoop(col_map, cols) ==
  IF cols = <<>> THEN col_map
  ELSE ColMapLoop(ColMapStep(col_map, Head(cols)), Tail(cols))

\* lines 103-122
ColMap(cols) == ColMapLoop([k \in 1..Len(Canonical) |-> None], cols)

\* line 125
KeepRealCols(col_map) == FilterSeq(col_map, LAMBDA c : c # None)

\* lines 133-138: rename_to is filled in canonical order, a later entry for the
\* same real column overwrites an earlier one
RenameTo(col_map, real) ==
  LET ks == {k \in 1..Len(Canonical) : col_map[k] = real}
  IN  IF ks = {} THEN real
      ELSE Canonical[CHOOSE k \in ks : \A j \in ks : j <= k]

RenameColumns(df, col_map) ==
  [df EXCEPT !.columns =
     [i \in 1..Len(df.columns) |-> RenameTo(col_map, df.columns[i])]]

\* the header filter without the upper(): only the exact literal is dropped
IsHeaderArtifactExact(v) == AsStr(v) = litTICKER

\* line 142: astype(str).str.upper() != "TICKER" keeps the row
IsHeaderArtifact(v) == StrUpper(AsStr(v)) = litTICKER

\* line 142
DropHeaderRows(df) ==
  LET p == Positions(df.columns, cTicker)[1]
  IN  [df EXCEPT !.rows =
         FilterSeq(df.rows, LAMBDA row : ~IsHeaderArtifact(row[p]))]

StripCell(v) == StrStrip(AsStr(v))

\* line 151
AddStock(df, symbol) ==
  [columns |-> Append(df.columns, cStock),
   rows |-> [r \in 1..Len(df.rows) |-> Append(df.rows[r], StrUpper(symbol))]]

\* lines 154-156
OrderedCols(df) ==
  FilterSeq(<<cStock>> \o Canonical, LAMBDA c : HasColumn(df, c))

Returned(df, warns) == [kind |-> "return", df |-> df, warns |-> warns]
Raised == [kind |-> "raise", df |-> EmptyDF, warns |-> <<>>]

\* lines 94-158: the first table of the page
NormalizeTable(symbol, table) ==
  LET df0 == [columns |-> FlattenColumns(table), rows |-> table.rows]
      col_map == ColMap(df0.columns)
      keep_real_cols == KeepRealCols(col_map)
      df1 == RenameColumns(SelectColumns(df0, keep_real_cols), col_map)
      df2 == IF HasColumn(df1, cTicker) THEN DropHeaderRows(df1) ELSE df1
      df3 == IF HasColumn(df2, cExpense)
             THEN MapColumn(df2, cExpense, StripCell) ELSE df2
      df4 == IF HasColumn(df3, cWeighting)
             THEN MapColumn(df3, cWeighting, StripCell) ELSE df3
      df5 == AddStock(df4, symbol)
  IN  IF keep_real_cols = <<>> THEN Returned(EmptyDF, <<"warn_columns">>)
      ELSE IF HasColumn(df1, cTicker) /\ ~IsSeries(df1, cTicker) THEN Raised
      ELSE IF HasColumn(df2, cExpense) /\ ~IsSeries(df2, cExpense) THEN Raised
      ELSE IF HasColumn(df3, cWeighting) /\ ~IsSeries(df3, cWeighting) THEN Raised
      ELSE Returned(SelectColumns(df5, OrderedCols(df5)), <<>>)

\* lines 65-158.  response is what the site and the HTML parser did.
get_stock_etf_exposure_etfdb(symbol, response) ==
  CASE response.kind \in {"transport_error", "http_error"} ->
         Returned(EmptyDF, <<"warn_fetch">>)
    [] response.kind \in {"parse_value_error", "no_tables"} ->
         Returned(EmptyDF, <<"warn_no_table">>)
    [] response.kind = "parse_other_error" -> Raised
    [] response.kind = "table" -> NormalizeTable(symbol, response.table)

(***************************************************************************)
(* pd.concat(frames, ignore_index=True) (line 176).  Frames with the same  *)
(* columns are stacked.  Otherwise the result has the union of the columns *)
(* in order of first appearance and NaN where a frame lacks a column;      *)
(* aligning a frame whose labels repeat raises InvalidIndexError.          *)
(***************************************************************************)
Concat(frames) ==
  LET same == \A i \in 1..Len(frames) : frames[i].columns = frames[1].columns
      unique(f) == \A p, q \in 1..Len(f.columns) :
                      f.columns[p] = f.columns[q] => p = q
      AllCols[k \in 0..Len(frames)] ==
        IF k = 0 THEN <<>>
        ELSE AllCols[k - 1] \o
             FilterSeq(frames[k].columns,
                       LAMBDA c : c \notin Range(AllCols[k - 1]))
      cols == AllCols[Len(frames)]
      Cell(f, row, c) ==
        IF \E p \in 1..Len(f.columns) : f.columns[p] = c
        THEN row[CHOOSE p \in 1..Len(f.columns) : f.columns[p] = c] ELSE NaN
      RowsOf(f) == [r \in 1..Len(f.rows) |->
                      [i \in 1..Len(cols) |-> Cell(f, f.rows[r], cols[i])]]
      AllRows[k \in 0..Len(frames)] ==
        IF k = 0 THEN <<>> ELSE AllRows[k - 1] \o RowsOf(frames[k])
      Stacked[k \in 0..Len(frames)] ==
        IF k = 0 THEN <<>> ELSE Stacked[k - 1] \o frames[k].rows
  IN  IF same
        THEN [kind |-> "return",
              df |-> [columns |-> frames[1].columns, rows |-> Stacked[Len(frames)]]]
      ELSE IF \E i \in 1..Len(frames) : ~unique(frames[i])
        THEN [kind |-> "raise", df |-> EmptyDF]
      ELSE [kind |-> "return", df |-> [columns |-> cols, rows |-> AllRows[Len(frames)]]]

(***************************************************************************)
(* The inputs.                                                             *)
(***************************************************************************)
\* line 27
default_stocks == <<"A","A","P","L",","," ","M","S","F","T",","," ","T","S","L","A",","," ","N","V","D","A">>

\* what the user types in the text area before a run
AppTexts == { <<>>, <<"a">>, <<"a",",","B">>, <<"B",","," ","a">>, <<"a",",","a">>, <<" ",","," ">> }

\* the uploaded file: none, one pd.read_csv cannot read, one without a
\* 'symbol' column, one with a 'symbol' column holding these values
NoFile == [kind |-> "none", symbols |-> <<>>]
Uploads ==
  { NoFile,
    [kind |-> "unreadable", symbols |-> <<>>],
    [kind |-> "no_symbol_column", symbols |-> <<>>],
    [kind |-> "symbols", symbols |-> <<>>],
    [kind |-> "symbols", symbols |-> <<<<"b">>>>],
    [kind |-> "symbols", symbols |-> <<<<"b">>, <<"A">>>>] }

\* the stocks a run of the model can ask for
Symbols == { <<"A">>, <<"B">> }

\* the header texts of the tables
hTicker == cTicker
hEtfTicker == <<"E","T","F"," ","T","i","c","k","e","r">>
hTickerWeight == <<"T","i","c","k","e","r"," ","W","e","i","g","h","t">>
hEtfPadded == <<" ","e","t","f"," ">>
hEtfs == <<"E","T","F","s">>
hCategory == cCategory
hExpense == <<"E","x","p","e","n","s","e">>
hWeighting == cWeighting
hName == <<"N","a","m","e">>
Headers == { hTicker, hTickerWeight, hEtfPadded, hEtfs, hCategory, hExpense,
             hWeighting, hName }

\* the cell texts of the tables
vQQQ == <<"Q","Q","Q">>
vSPY == <<"S","P","Y">>
vTicker == cTicker
vTICKER == litTICKER
vPadded == <<" ","5",".","2","%"," ">>
vFee == <<"0",".","7","5","%">>
Cells == { vQQQ, vTicker, vTICKER, vPadded, NaN }

\* a two-level header is modelled by its first level and the position
MultiLabels(tops) == [i \in 1..Len(tops) |-> <<tops[i], i>>]

SeqsUpTo(S, lo, hi) == UNION { [1..n -> S] : n \in lo..hi }

Distinct(q) == \A i, j \in 1..Len(q) : q[i] = q[j] => i = j

\* The raw tables of the normaliser's specification.  pd.read_html renames a
\* repeated header of a one-level table (Ticker, Ticker.1), so only the first
\* levels of a two-level header repeat.  Every cell of a row carries the same
\* text: the steps of the normaliser work column by column.
UniformRow(n, v) == [i \in 1..n |-> v]

RawTable(multi, cols, vs) ==
  [multi |-> multi,
   columns |-> IF multi THEN MultiLabels(cols) ELSE cols,
   rows |-> [r \in 1..Len(vs) |-> UniformRow(Len(cols), vs[r])]]

\* the tables the site serves in the application's specification
tFull ==
  [multi |-> FALSE, columns |-> <<hTicker, hEtfPadded, hWeighting, hName>>,
   rows |-> << <<vQQQ, vSPY, vPadded, vFee>>, <<vTICKER, cETF, hWeighting, hName>> >>]
tUnrecognised ==
  [multi |-> FALSE, columns |-> <<hName, hEtfs>>, rows |-> << <<vQQQ, vSPY>> >>]
tHeaderOnly ==
  [multi |-> FALSE, columns |-> <<hEtfTicker>>, rows |-> << <<vTicker>> >>]
tEtfExpense ==
  [multi |-> FALSE, columns |-> <<hExpense, hEtfPadded>>,
   rows |-> << <<vFee, vSPY>> >>]
tTwoTickers ==
  [multi |-> TRUE, columns |-> MultiLabels(<<hTicker, hTicker>>),
   rows |-> << <<vQQQ, vSPY>> >>]
tTwoEtfs ==
  [multi |-> TRUE, columns |-> MultiLabels(<<cETF, cETF>>),
   rows |-> << <<vQQQ, vSPY>> >>]
OneLevelAppTables == { tFull, tUnrecognised, tHeaderOnly, tEtfExpense }
TwoLevelAppTables == { tTwoTickers, tTwoEtfs }

\* what requests.get and pd.read_html can do for one symbol
Failure(k) == [kind |-> k]
FailureResponses ==
  { Failure(k) : k \in { "transport_error", "http_error", "parse_value_error",
                         "parse_other_error", "no_tables" } }
TableResponse(t) == [kind |-> "table", table |-> t]

(***************************************************************************)
(* State.                                                                  *)
(*   stocks_input, upload_file, run_scan  the sidebar widgets (lines 28-40)*)
(*   cache        the st.cache_data store of get_stock_etf_exposure_etfdb  *)
(*   pc           where the current run of the script is                   *)
(*   stocks_list  line 181/189                                             *)
(*   idx, frames  the loop of build_exposure                               *)
(*   subs         what each call of the run returned, in call order        *)
(*   log          what the run showed and requested, in order              *)
(*   df_result, ui  the outcome of the run                                 *)
(*   scans        how many reruns the user has caused                      *)
(*   text, tokens, pphase          parse_tickers on its own                *)
(*   ntable, nsymbol, nresult, nphase   the normaliser on its own          *)
(*   ncol_map     the col_map of lines 103-122 when the function ends      *)
(***************************************************************************)
VARIABLES stocks_input, upload_file, run_scan, cache, pc, stocks_list, idx,
          frames, subs, log, df_result, ui, scans,
          text, tokens, pphase,
          ntable, nsymbol, nresult, ncol_map, nphase

appVars == <<stocks_input, upload_file, run_scan, cache, pc, stocks_list, idx,
             frames, subs, log, df_result, ui, scans>>
parseVars == <<text, tokens, pphase>>
normVars == <<ntable, nsymbol, nresult, ncol_map, nphase>>
vars == <<appVars, parseVars, normVars>>

NoEntry == [kind |-> "absent", df |-> EmptyDF, warns |-> <<>>]

Event(e, s) == [ev |-> e, sym |-> s]
NoSym == <<>>

\* the page is loaded: the script is about to run with the widgets' defaults
AppStart ==
  /\ stocks_input = default_stocks
  /\ upload_file = NoFile
  /\ run_scan = FALSE
  /\ cache = [s \in Symbols |-> NoEntry]
  /\ pc = "import"
  /\ stocks_list = <<>>
  /\ idx = 0
  /\ frames = <<>>
  /\ subs = <<>>
  /\ log = <<>>
  /\ df_result = EmptyDF
  /\ ui = "running"
  /\ scans = 0

ParseIdle == text = <<>> /\ tokens = <<>> /\ pphase = "idle"
NormIdle ==
  /\ ntable = [multi |-> FALSE, columns |-> <<>>, rows |-> <<>>]
  /\ nsymbol = <<>>
  /\ nresult = NoEntry
  /\ ncol_map = ColMap(<<>>)
  /\ nphase = "idle"

Init == AppStart /\ ParseIdle /\ NormIdle

(***************************************************************************)
(* The script, lines 181-226.                                              *)
(***************************************************************************)
\* The user changes the widgets; Streamlit reruns the script from the top.
\* The button is True only in the run its click causes.
Interact(t, f, click) ==
  /\ pc \in {"done", "crashed"}
  /\ scans < MaxScans
  /\ stocks_input' = t
  /\ upload_file' = f
  /\ run_scan' = click
  /\ pc' = "import"
  /\ stocks_list' = <<>>
  /\ idx' = 0
  /\ frames' = <<>>
  /\ subs' = <<>>
  /\ log' = <<>>
  /\ df_result' = EmptyDF
  /\ ui' = "running"
  /\ scans' = scans + 1
  /\ UNCHANGED <<cache, parseVars, normVars>>

\* line 188: df_upload["symbol"].astype(str).str.upper().tolist()
FromCsv(f) == [i \in 1..Len(f.symbols) |-> StrUpper(AsStr(f.symbols[i]))]

\* the merge as a plain concatenation of the two lists
MergedStocksNoSet(t, f) ==
  IF f.kind = "symbols"
  THEN parse_tickers(t) \o FromCsv(f)
  ELSE parse_tickers(t)

\* lines 181-193
MergedStocks(t, f) ==
  IF f.kind = "symbols"
  THEN SortedSet(Range(parse_tickers(t) \o FromCsv(f)))
  ELSE parse_tickers(t)

\* lines 191, 193
CsvWarnings(f) ==
  IF f.kind \in {"unreadable", "no_symbol_column"}
  THEN <<Event("csv_warning", NoSym)>> ELSE <<>>

ImportStep ==
  /\ pc = "import"
  /\ stocks_list' = MergedStocks(stocks_input, upload_file)
  /\ log' = log \o CsvWarnings(upload_file)
  /\ pc' = "gate"
  /\ UNCHANGED <<stocks_input, upload_file, run_scan, cache, idx, frames, subs,
                 df_result, ui, scans, parseVars, normVars>>

\* the gate without the test of the list
GateAlwaysScans(run, stocks) == IF ~run THEN "info" ELSE "scan"

\* lines 195-198, 222
Gate(run, stocks) ==
  IF ~run THEN "info" ELSE IF stocks = <<>> THEN "error" ELSE "scan"

GateStep ==
  /\ pc = "gate"
  /\ LET g == Gate(run_scan, stocks_list)
     IN  \/ /\ g = "info"
            /\ log' = Append(log, Event("info", NoSym))
            /\ ui' = "info"
            /\ pc' = "done"
            /\ idx' = idx
         \/ /\ g = "error"
            /\ log' = Append(log, Event("error_no_stock", NoSym))
            /\ ui' = "error"
            /\ pc' = "done"
            /\ idx' = idx
         \/ /\ g = "scan"
            /\ log' = log
            /\ ui' = ui
            /\ pc' = "loop"
            /\ idx' = 1
  /\ UNCHANGED <<stocks_input, upload_file, run_scan, cache, stocks_list, frames,
                 subs, df_result, scans, parseVars, normVars>>

\* a store that keeps only the non-empty results
CacheHitNonEmpty(c, s) == c[s] # NoEntry /\ ~DfEmpty(c[s].df)

\* line 50: st.cache_data looks the argument up
CacheHit(c, s) == c[s] # NoEntry

WarnEvents(warns, s) == [i \in 1..Len(warns) |-> Event(warns[i], s)]

\* lines 168-171
AppendFrame(fs, sub) == IF DfEmpty(sub) THEN fs ELSE Append(fs, sub)

\* lines 168-169
EmptyWarning(sub, s) ==
  IF DfEmpty(sub) THEN <<Event("warn_no_etf", s)>> ELSE <<>>

\* lines 166-171: one iteration of the loop of build_exposure.  On a hit the
\* stored value is returned and the warnings recorded with it are shown again;
\* on a miss the body is run on what the site answers, and a raised exception
\* is not stored and leaves build_exposure and the script.
FetchStep(response) ==
  /\ pc = "loop"
  /\ idx <= Len(stocks_list)
  /\ LET s == stocks_list[idx]
     IN  IF CacheHit(cache, s)
         THEN /\ subs' = Append(subs, cache[s].df)
              /\ frames' = AppendFrame(frames, cache[s].df)
              /\ log' = log \o WarnEvents(cache[s].warns, s)
                            \o <<Event("hit", s)>> \o EmptyWarning(cache[s].df, s)
              /\ idx' = idx + 1
              /\ UNCHANGED <<cache, pc, ui>>
         ELSE LET res == get_stock_etf_exposure_etfdb(s, response)
              IN  IF res.kind = "raise"
                  THEN /\ log' = Append(log, Event("http", s))
                       /\ pc' = "crashed"
                       /\ ui' = "exception"
                       /\ UNCHANGED <<cache, subs, frames, idx>>
                  ELSE /\ cache' = [cache EXCEPT ![s] = res]
                       /\ subs' = Append(subs, res.df)
                       /\ frames' = AppendFrame(frames, res.df)
                       /\ log' = log \o <<Event("http", s)>>
                                     \o WarnEvents(res.warns, s)
                                     \o <<Event("miss", s)>>
                                     \o EmptyWarning(res.df, s)
                       /\ idx' = idx + 1
                       /\ UNCHANGED <<pc, ui>>
  /\ UNCHANGED <<stocks_input, upload_file, run_scan, stocks_list, df_result,
                 scans, parseVars, normVars>>

\* lines 173-177
build_exposure_result(fs) ==
  IF fs = <<>> THEN [kind |-> "return", df |-> EmptyDF] ELSE Concat(fs)

\* lines 173-177 and 202-221: the end of build_exposure and what is shown
FinishStep ==
  /\ pc = "loop"
  /\ idx > Len(stocks_list)
  /\ LET res == build_exposure_result(frames)
     IN  IF res.kind = "raise"
         THEN /\ pc' = "crashed"
              /\ ui' = "exception"
              /\ UNCHANGED <<df_result, log>>
         ELSE /\ df_result' = res.df
              /\ pc' = "done"
              /\ IF DfEmpty(res.df)
                 THEN /\ ui' = "no_results"
                      /\ log' = Append(log, Event("warn_no_results", NoSym))
                 ELSE /\ ui' = "table"
                      /\ log' = log \o <<Event("show_table", NoSym),
                                         Event("download_button", NoSym)>>
  /\ UNCHANGED <<stocks_input, upload_file, run_scan, cache, stocks_list, idx,
                 frames, subs, scans, parseVars, normVars>>

Next ==
  \/ \E t \in AppTexts, f \in Uploads, click \in BOOLEAN : Interact(t, f, click)
  \/ ImportStep
  \/ GateStep
  \/ \E r \in FailureResponses : FetchStep(r)
  \/ \E t \in OneLevelAppTables : FetchStep(TableResponse(t))
  \/ \E t \in TwoLevelAppTables : FetchStep(TableResponse(t))
  \/ FinishStep

Spec == Init /\ [][Next]_vars

(***************************************************************************)
(* parse_tickers on its own: every text over a small alphabet.             *)
(***************************************************************************)
ParseAlphabet == { "a", "B", " ", "\t", "," }
ParseTexts == SeqsUpTo(ParseAlphabet, 0, MaxTextLen)

InitParse ==
  /\ AppStart /\ NormIdle
  /\ text \in ParseTexts
  /\ tokens = <<>>
  /\ pphase = "input"

ParseStep ==
  /\ pphase = "input"
  /\ tokens' = parse_tickers(text)
  /\ pphase' = "parsed"
  /\ UNCHANGED <<text, appVars, normVars>>

NextParse == ParseStep

SpecParse == InitParse /\ [][NextParse]_vars

(***************************************************************************)
(* The normaliser on its own: every raw table within the bounds.           *)
(***************************************************************************)
NormSymbol == <<"b">>

InitNorm ==
  /\ AppStart /\ ParseIdle
  /\ \E multi \in BOOLEAN, cols \in SeqsUpTo(Headers, 1, MaxCols),
        vs \in SeqsUpTo(Cells, 0, MaxRows) :
        /\ multi \/ Distinct(cols)
        /\ ntable = RawTable(multi, cols, vs)
  /\ nsymbol = NormSymbol
  /\ nresult = NoEntry
  /\ ncol_map = ColMap(<<>>)
  /\ nphase = "input"

NormalizeStep ==
  /\ nphase = "input"
  /\ nresult' = get_stock_etf_exposure_etfdb(nsymbol, TableResponse(ntable))
  /\ ncol_map' = ColMap(FlattenColumns(ntable))
  /\ nphase' = "done"
  /\ UNCHANGED <<ntable, nsymbol, appVars, parseVars>>

NextNorm == NormalizeStep

SpecNorm == InitNorm /\ [][NextNorm]_vars

(***************************************************************************)
(* Properties.                                                             *)
(***************************************************************************)
HasRows(df) == Len(df.columns) > 0 /\ Len(df.rows) > 0
EventsOf(e) == {i \in 1..Len(log) : log[i].ev = e}

\* C1: per-symbol failure isolation.  Whatever the site answers for a symbol, no
\* exception leaves get_stock_etf_exposure_etfdb: the run never ends in an
\* unhandled exception, and a scan that was started ends with one result per
\* symbol of the list, a failed symbol having shown a warning and added no row.
C1_FailureIsolation ==
  /\ pc # "crashed"
  /\ (pc = "done" /\ run_scan /\ stocks_list # <<>>) =>
        /\ Len(subs) = Len(stocks_list)
        /\ \A i \in 1..Len(subs) :
             ~HasRows(subs[i]) =>
                \E j \in EventsOf("warn_no_etf") : log[j].sym = stocks_list[i]

\* C2: no record returned by get_stock_etf_exposure_etfdb has a Ticker field
\* equal, case-insensitively, to "ticker".
C2_NoHeaderArtifact ==
  (nphase = "done" /\ nresult.kind = "return") =>
     \A p \in 1..Len(nresult.df.columns), r \in 1..Len(nresult.df.rows) :
        nresult.df.columns[p] = cTicker =>
           StrLower(nresult.df.rows[r][p]) # litTicker

\* C2 witness: a table with a ticker column lost a row to the filter and kept
\* another one.
C2_Witness ==
  /\ nphase = "done" /\ nresult.kind = "return"
  /\ HasColumn(nresult.df, cTicker)
  /\ Len(nresult.df.rows) >= 1
  /\ Len(nresult.df.rows) < Len(ntable.rows)
  /\ \E r \in 1..Len(ntable.rows) : ntable.rows[r][1] = vTicker

\* C3: once a result is stored for a symbol the entry never changes, and a call
\* for that symbol returns the stored frame without a new HTTP request; this
\* holds as well when the stored result is the empty one of a failed fetch.
C3_Memoization ==
  [][\A s \in Symbols :
       cache[s] # NoEntry =>
          /\ cache'[s] = cache[s]
          /\ (pc = "loop" /\ idx <= Len(stocks_list) /\ stocks_list[idx] = s
              /\ <<pc, idx>>' # <<pc, idx>>) =>
                /\ subs' = Append(subs, cache[s].df)
                /\ \A i \in (Len(log) + 1)..Len(log') : log'[i].ev # "http"]_vars

\* C3 witness: a later scan was answered from the store for a symbol whose
\* first fetch had failed.
C3_Witness ==
  /\ scans = MaxScans
  /\ \E i \in EventsOf("hit") :
        /\ cache[log[i].sym].warns = <<"warn_fetch">>
        /\ cache[log[i].sym].df = EmptyDF
        /\ EventsOf("http") = {}

\* the rows of the non-empty frames, in order, each with the columns it has
RECURSIVE SourceRows(_)
SourceRows(fs) ==
  IF fs = <<>> THEN <<>>
  ELSE (IF HasRows(Head(fs))
        THEN [r \in 1..Len(Head(fs).rows) |->
                [columns |-> Head(fs).columns, row |-> Head(fs).rows[r]]]
        ELSE <<>>) \o SourceRows(Tail(fs))

Fields(columns, row) == { <<columns[p], row[p]>> : p \in 1..Len(columns) }

\* C4: when every symbol of the list has given its result, build_exposure
\* returns a relation with one row per row of the non-empty per-symbol results,
\* in the order of the list; each row keeps every field of its source row, and
\* a column its source lacks is missing (NaN).
C4_Consolidation ==
  (/\ run_scan /\ stocks_list # <<>>
   /\ pc \in {"done", "crashed"}
   /\ Len(subs) = Len(stocks_list)) =>
     LET src == SourceRows(subs)
     IN  /\ pc = "done"
         /\ Len(df_result.rows) = Len(src)
         /\ \A k \in 1..Len(src) :
              /\ Fields(src[k].columns, src[k].row)
                   \subseteq Fields(df_result.columns, df_result.rows[k])
              /\ \A p \in 1..Len(df_result.columns) :
                   df_result.columns[p] \notin Range(src[k].columns)
                      => df_result.rows[k][p] = NaN

\* the five column rules, on one header
Recognised(h) ==
  LET n == StrLower(StrStrip(h))
  IN  \/ StrContains(litTicker, n)
      \/ n = litEtf
      \/ StrContains(litDatabaseCategory, n)
      \/ StrContains(litExpense, n)
      \/ StrContains(litWeight, n)

NoneRecognised(table) ==
  \A p \in 1..Len(table.columns) :
     ~Recognised(IF table.multi THEN table.columns[p][1] ELSE table.columns[p])

\* C5: a table none of whose headers matches a rule gives the empty frame and
\* the warning about the columns, and no exception.
C5_NoRecognisedColumns ==
  (nphase = "done" /\ NoneRecognised(ntable)) =>
     /\ nresult.kind = "return"
     /\ nresult.df = EmptyDF
     /\ nresult.warns = <<"warn_columns">>

\* C5 witness: a table with rows whose headers are "ETFs" and "Name".
C5_Witness ==
  /\ nphase = "done" /\ NoneRecognised(ntable)
  /\ ~ntable.multi
  /\ ntable.columns = <<hEtfs, hName>>
  /\ Len(ntable.rows) >= 1

\* C6: a triggered run whose merged list is empty shows the error and requests
\* nothing; and in every run a warning of the CSV import comes before any
\* request.
C6_InputFailureFirst ==
  /\ (run_scan /\ pc \notin {"import", "gate"} /\ stocks_list = <<>>) =>
        /\ ui = "error"
        /\ EventsOf("error_no_stock") # {}
        /\ EventsOf("http") = {} /\ EventsOf("hit") = {} /\ subs = <<>>
  /\ \A i \in EventsOf("http"), j \in EventsOf("csv_warning") : j < i
  /\ (upload_file.kind \in {"unreadable", "no_symbol_column"} /\ pc # "import") =>
        log # <<>> /\ log[1].ev = "csv_warning"

\* C6 witness: the trigger was pressed with an empty text and an unreadable CSV.
C6_Witness ==
  /\ pc = "done" /\ run_scan /\ stocks_list = <<>>
  /\ upload_file.kind = "unreadable"
  /\ EventsOf("csv_warning") # {}

\* C7: when every symbol of a non-empty list gives an empty result, the run
\* does not raise: it ends with the empty relation and the "no results"
\* warning, and shows neither the table nor the download button.
C7_TotalFailure ==
  (/\ run_scan /\ stocks_list # <<>>
   /\ pc \in {"done", "crashed"}
   /\ Len(subs) = Len(stocks_list)
   /\ \A i \in 1..Len(subs) : ~HasRows(subs[i])) =>
     /\ pc = "done"
     /\ ui = "no_results"
     /\ ~HasRows(df_result)
     /\ EventsOf("warn_no_results") # {}
     /\ EventsOf("show_table") = {} /\ EventsOf("download_button") = {}

\* C7 witness: two symbols, one whose fetch failed and one whose table held
\* only a repeated header row.
C7_Witness ==
  /\ pc = "done" /\ ui = "no_results"
  /\ Len(subs) = 2
  /\ subs[1] = EmptyDF
  /\ subs[2].columns # <<>> /\ subs[2].rows = <<>>

\* the comma-separated segments of a text, by the positions of the commas
Segments(t) ==
  LET cuts == {0, Len(t) + 1} \cup {i \in 1..Len(t) : t[i] = ","}
      n == Cardinality(cuts) - 1
      Cut(k) == CHOOSE c \in cuts : Cardinality({d \in cuts : d < c}) = k
  IN  [k \in 1..n |-> SubSeq(t, Cut(k - 1) + 1, Cut(k) - 1)]

Blank(seg) == \A i \in 1..Len(seg) : IsSpace(seg[i])

Trimmed(seg) ==
  LET ns == {i \in 1..Len(seg) : ~IsSpace(seg[i])}
      lo == CHOOSE i \in ns : \A j \in ns : i <= j
      hi == CHOOSE i \in ns : \A j \in ns : j <= i
  IN  SubSeq(seg, lo, hi)

RECURSIVE JoinComma(_)
JoinComma(ts) ==
  IF ts = <<>> THEN <<>>
  ELSE IF Len(ts) = 1 THEN ts[1]
  ELSE ts[1] \o <<",">> \o JoinComma(Tail(ts))

\* C8: parse_tickers gives, in order and with repetitions, the segments between
\* the commas that are not blank, each trimmed and uppercased; so every token is
\* non-empty, trimmed and uppercase, a blank text gives no token, and parsing
\* the comma-join of the tokens gives the tokens again.
C8_ParseTickers ==
  pphase = "parsed" =>
     LET kept == FilterSeq(Segments(text), LAMBDA g : ~Blank(g))
     IN  /\ Len(tokens) = Len(kept)
         /\ \A k \in 1..Len(kept) : tokens[k] = StrUpper(Trimmed(kept[k]))
         /\ \A k \in 1..Len(tokens) :
              /\ tokens[k] # <<>>
              /\ ~IsSpace(tokens[k][1]) /\ ~IsSpace(tokens[k][Len(tokens[k])])
              /\ \A i \in 1..Len(tokens[k]) :
                   tokens[k][i] \notin Range(LowerChars) \cup {","}
         /\ (Blank(text) => tokens = <<>>)
         /\ parse_tickers(JoinComma(tokens)) = tokens

\* C8 witness: a text with a lowercase token, a blank segment and a repeated
\* token.
C8_Witness ==
  /\ pphase = "parsed"
  /\ Len(tokens) = 2 /\ tokens[1] = tokens[2] /\ tokens[1] = <<"A">>
  /\ Len(Segments(text)) = 3

\* C9: with a 'symbol' column the list of the run holds, once each, the manual
\* tickers and the uppercased CSV symbols and nothing else; without the column,
\* or with an unreadable file, a warning is shown, the run goes on, and the list
\* is parse_tickers of the manual input as it stands.
C9_CsvImport ==
  pc # "import" =>
     LET manual == FilterSeq([k \in 1..Len(Segments(stocks_input)) |->
                                 Segments(stocks_input)[k]],
                             LAMBDA g : ~Blank(g))
         typed == { StrUpper(Trimmed(manual[k])) : k \in 1..Len(manual) }
         csv == { StrUpper(upload_file.symbols[k]) :
                    k \in 1..Len(upload_file.symbols) }
     IN  /\ upload_file.kind = "symbols" =>
              /\ Range(stocks_list) = typed \cup csv
              /\ Distinct(stocks_list)
              /\ EventsOf("csv_warning") = {}
         /\ upload_file.kind \in {"unreadable", "no_symbol_column"} =>
              /\ stocks_list = parse_tickers(stocks_input)
              /\ Len(stocks_list) = Len(manual)
              /\ \A k \in 1..Len(manual) :
                   stocks_list[k] = StrUpper(Trimmed(manual[k]))
              /\ EventsOf("csv_warning") # {}
         /\ upload_file.kind = "none" =>
              stocks_list = parse_tickers(stocks_input)

\* C9 witness: the manual list "B, a" was merged with the CSV symbols b and A.
C9_Witness ==
  /\ pc = "done"
  /\ upload_file.kind = "symbols" /\ Len(upload_file.symbols) = 2
  /\ Len(parse_tickers(stocks_input)) = 2
  /\ parse_tickers(stocks_input)[1] = <<"B">>
  /\ stocks_list = << <<"A">>, <<"B">> >>

\* one rule of lines 113-121 on one header
RuleMatches(k, h) ==
  LET n == StrLower(StrStrip(h))
  IN  CASE k = 1 -> StrContains(litTicker, n)
        [] k = 2 -> n = litEtf
        [] k = 3 -> StrContains(litDatabaseCategory, n)
        [] k = 4 -> StrContains(litExpense, n)
        [] k = 5 -> StrContains(litWeight, n)

FirstMatch(k, cols) ==
  LET ms == {i \in 1..Len(cols) : RuleMatches(k, cols[i])}
  IN  IF ms = {} THEN None ELSE cols[CHOOSE i \in ms : \A j \in ms : i <= j]

\* C10: for a table with a recognisable header, every canonical field is bound
\* to the first column that matches its rule, no column is bound to two fields,
\* and the function returns a frame whose columns are 'stock' and then the bound
\* fields in canonical order, every row carrying the uppercased symbol.
C10_NormalizedShape ==
  (nphase = "done" /\ ~NoneRecognised(ntable)) =>
     LET cols == FlattenColumns(ntable)
         bound == FilterSeq(Canonical,
                            LAMBDA c : \E k \in 1..Len(Canonical) :
                                          Canonical[k] = c /\ ncol_map[k] # None)
     IN  /\ \A k \in 1..Len(Canonical) : ncol_map[k] = FirstMatch(k, cols)
         /\ \A j, k \in 1..Len(Canonical) :
              (j # k /\ ncol_map[j] # None) => ncol_map[j] # ncol_map[k]
         /\ nresult.kind = "return"
         /\ nresult.df.columns = <<cStock>> \o bound
         /\ \A r \in 1..Len(nresult.df.rows) :
              nresult.df.rows[r][1] = StrUpper(nsymbol)

====
